---- MODULE Spec2Model ----
(***************************************************************************)
(* A model of movie_analyzer/main.py: the MovieAnalyzer class (five pandas *)
(* tables loaded from CSV files, six queries, one JSON export) and main(). *)
(*                                                                         *)
(* A CSV file is a header and rows of text cells.  A DataFrame is a record *)
(* [columns, rows]; a row is a function from column name to cell; a cell   *)
(* is a record with a kind field k: "nan", "str", "num", "ts" or "nat".    *)
(***************************************************************************)
EXTENDS Integers, Sequences, FiniteSets, TLC

VARIABLES
    sources,      \* the five CSV files as they are on disk
    metadata_df,  \* self.metadata_df
    ratings_df,   \* self.ratings_df
    credits_df,   \* self.credits_df
    keywords_df,  \* self.keywords_df
    links_df,     \* self.links_df
    last,         \* the most recent call: its name, what it raised, returned and logged
    json_out,     \* the file save_to_json writes
    loaded,       \* history: the five tables as load_data left them
    ran,          \* history: the mutating queries that have returned normally
    pc,           \* main(): the statement about to run ("api": main is not running)
    trace         \* main(): the steps started so far

vars == <<sources, metadata_df, ratings_df, credits_df, keywords_df, links_df,
          last, json_out, loaded, ran, pc, trace>>

-----------------------------------------------------------------------------
(* Bounds of the model. *)

MaxRows == 2      \* rows of a drawn metadata file
MaxRatings == 2   \* rows of a drawn ratings file
MaxN == 2         \* largest n passed to top_rated_movies / top_keywords

-----------------------------------------------------------------------------
(* Cells. *)

None == [k |-> "None"]
NaN == [k |-> "nan"]
NaT == [k |-> "nat"]
Str(s) == [k |-> "str", s |-> s]
Ts(y, m, d) == [k |-> "ts", y |-> y, m |-> m, d |-> d]

Abs(i) == IF i < 0 THEN -i ELSE i

RECURSIVE Gcd(_, _)
Gcd(a, b) == IF b = 0 THEN a ELSE Gcd(b, a % b)

\* a float, kept exact as a reduced fraction n/d with d > 0
Frac(n, d) ==
    LET g == Gcd(Abs(n), d)
    IN  [k |-> "num", n |-> n \div g, d |-> d \div g]

Num(v) == Frac(v, 1)

Less(a, b) == a.n * b.d < b.n * a.d

IsNull(c) == c.k \in {"nan", "nat"}

-----------------------------------------------------------------------------
(* Sequences. *)

RECURSIVE Flatten(_)
Flatten(ss) == IF ss = <<>> THEN <<>> ELSE Head(ss) \o Flatten(Tail(ss))

\* the distinct members of s, each at its first occurrence
RECURSIVE Distinct(_, _)
Distinct(s, seen) ==
    IF s = <<>> THEN <<>>
    ELSE IF Head(s) \in seen THEN Distinct(Tail(s), seen)
    ELSE <<Head(s)>> \o Distinct(Tail(s), seen \cup {Head(s)})

\* x placed in the ascending sequence s behind every member that is not larger
RECURSIVE InsertByOrd(_, _)
InsertByOrd(x, s) ==
    IF s = <<>> THEN <<x>>
    ELSE IF Less(x.ord, Head(s).ord) THEN <<x>> \o s
    ELSE <<Head(s)>> \o InsertByOrd(x, Tail(s))

\* a stable sort, ascending in the members' ord field
RECURSIVE StableSort(_)
StableSort(s) ==
    IF s = <<>> THEN <<>>
    ELSE InsertByOrd(s[Len(s)], StableSort(SubSeq(s, 1, Len(s) - 1)))

Take(s, n) == IF n <= 0 THEN <<>> ELSE SubSeq(s, 1, IF n < Len(s) THEN n ELSE Len(s))

SeqToSet(s) == {s[i] : i \in DOMAIN s}

-----------------------------------------------------------------------------
(* DataFrames. *)

DataFrame(columns, rows) == [k |-> "df", columns |-> columns, rows |-> rows]

IsNone(df) == df.k = "None"

HasCol(df, c) == c \in SeqToSet(df.columns)

\* df[c]
Col(df, c) == [i \in DOMAIN df.rows |-> df.rows[i][c]]

\* df[c] = series
SetCol(df, c, series) ==
    DataFrame(IF HasCol(df, c) THEN df.columns ELSE Append(df.columns, c),
              [i \in DOMAIN df.rows |->
                  [x \in DOMAIN df.rows[i] \cup {c} |->
                      IF x = c THEN series[i] ELSE df.rows[i][x]]])

\* Series.dropna()
DropNa(series) == SelectSeq(series, LAMBDA c : ~IsNull(c))

\* nunique(dropna=False): the nulls counted as a value
NUnique_CountsNulls(series) == Len(Distinct(series, {}))

\* Series.nunique(): the distinct values met while the nulls are skipped
NUnique(series) == Len(Distinct(DropNa(series), {}))

\* Series.value_counts(): the non-null values with their numbers of
\* occurrences, most frequent first
ValueCounts(series) ==
    LET vals == DropNa(series)
        keys == Distinct(vals, {})
        n(v) == Cardinality({i \in DOMAIN vals : vals[i] = v})
        sorted == StableSort([i \in DOMAIN keys |->
                     [key |-> keys[i], count |-> n(keys[i]), ord |-> Num(-n(keys[i]))]])
    IN  [i \in DOMAIN sorted |-> [key |-> sorted[i].key, count |-> sorted[i].count]]

\* value_counts() left in its own order, most frequent first
SortIndex_Unsorted(vc) == vc

\* Series.sort_index() of a value_counts() result: ascending in the key
SortIndex(vc) ==
    LET sorted == StableSort([i \in DOMAIN vc |->
                     [key |-> vc[i].key, count |-> vc[i].count, ord |-> vc[i].key]])
    IN  [i \in DOMAIN sorted |-> [key |-> sorted[i].key, count |-> sorted[i].count]]

-----------------------------------------------------------------------------
(* Text and what the parsers make of it. *)

\* float(s) for the texts of the model; NaN where s is no number
ParseNumber(s) ==
    CASE s = "1" -> Num(1)
      [] s = "01" -> Num(1)
      [] s = "1.0" -> Num(1)
      [] s = "2" -> Num(2)
      [] s = "3" -> Num(3)
      [] s = "4" -> Num(4)
      [] s = "5" -> Num(5)
      [] OTHER -> NaN

\* the calendar date s spells; NaT where it spells none
ParseDate(s) ==
    CASE s = "1999-01-01" -> Ts(1999, 1, 1)
      [] s = "1999-06-01" -> Ts(1999, 6, 1)
      [] s = "2001-03-03" -> Ts(2001, 3, 3)
      [] s = "1998-12-31" -> Ts(1998, 12, 31)
      [] OTHER -> NaT

\* Python values, as eval returns them
PyList(items) == [t |-> "list", items |-> items]
PyDict(d) == [t |-> "dict", d |-> d]
PyInt(v) == [t |-> "int", v |-> v]
PyStr(s) == [t |-> "str", s |-> s]

Returned(v) == [exc |-> "none", value |-> v]
Raised(e) == [exc |-> e, value |-> None]

Genre(name) == PyDict([x \in {"name"} |-> PyStr(name)])

\* eval(s) for the texts of the model
EvalText(s) ==
    CASE s = "[{'name': 'Action'}]" -> Returned(PyList(<<Genre("Action")>>))
      [] s = "[{'name': 'Action'}, {'name': 'Drama'}]" ->
            Returned(PyList(<<Genre("Action"), Genre("Drama")>>))
      [] s = "[]" -> Returned(PyList(<<>>))
      [] s = "[{'name': 'Drama'}, {'id': 18}]" ->
            Returned(PyList(<<Genre("Drama"), PyDict([x \in {"id"} |-> PyInt(18)])>>))
      [] s = "[18]" -> Returned(PyList(<<PyInt(18)>>))
      [] s = "5" -> Returned(PyInt(5))
      [] s = "[{'name': 'Action'" -> Raised("SyntaxError")
      [] s = "Action" -> Raised("NameError")
      [] OTHER -> Raised("SyntaxError")

-----------------------------------------------------------------------------
(* CSV files and pd.read_csv. *)

CsvFile(status, columns, rows) == [status |-> status, columns |-> columns, rows |-> rows]

Order == <<"metadata", "ratings", "credits", "keywords", "links">>

\* one column as read_csv types it: numbers if every cell that is not empty
\* is a number, text otherwise; an empty cell is NaN
ReadColumn(texts) ==
    LET numeric == \A i \in DOMAIN texts : texts[i] = "" \/ ParseNumber(texts[i]) # NaN
    IN  [i \in DOMAIN texts |->
            IF texts[i] = "" THEN NaN
            ELSE IF numeric THEN ParseNumber(texts[i]) ELSE Str(texts[i])]

\* pd.read_csv(path) on a file that is there and decodes
ReadCsv(file) ==
    LET typed == [c \in SeqToSet(file.columns) |->
                     ReadColumn([i \in DOMAIN file.rows |-> file.rows[i][c]])]
    IN  DataFrame(file.columns,
                  [i \in DOMAIN file.rows |->
                      [c \in SeqToSet(file.columns) |-> typed[c][i]]])

\* what pd.read_csv raises on the file, "none" if it returns
ReadError(file) ==
    CASE file.status = "absent" -> "FileNotFoundError"
      [] file.status = "empty" -> "EmptyDataError"
      [] file.status = "undecodable" -> "ParserError"
      [] OTHER -> "none"

-----------------------------------------------------------------------------
(* The queries of MovieAnalyzer, as functions of the tables.  Each gives   *)
(* [exc, value] and, where the query assigns to self.metadata_df, the      *)
(* table it leaves behind.                                                 *)

\* pd.to_numeric(series, errors='coerce'), one cell
ToNumeric(c) ==
    CASE c.k = "str" -> ParseNumber(c.s)
      [] c.k = "num" -> c
      [] OTHER -> NaN

\* pd.to_datetime(series, errors='coerce'), one cell
ToDatetime(c) ==
    CASE c.k = "str" -> ParseDate(c.s)
      [] c.k = "ts" -> c
      [] c.k = "num" -> Ts(1970, 1, 1)
      [] OTHER -> NaT

\* series.dt.year, one cell
Year(c) == IF c.k = "ts" THEN Num(c.y) ELSE NaN

RECURSIVE Sum(_)
Sum(series) ==
    IF series = <<>> THEN Num(0)
    ELSE LET a == Head(series)
             b == Sum(Tail(series))
         IN  Frac(a.n * b.d + b.n * a.d, a.d * b.d)

\* series.mean(): the mean of the values that are not null, NaN if there are none
Mean(series) ==
    LET vals == DropNa(series)
        total == Sum(vals)
    IN  IF vals = <<>> THEN NaN ELSE Frac(total.n, total.d * Len(vals))

\* unique_movies_count
UniqueMoviesCount(metadata) ==
    IF IsNone(metadata) THEN Raised("TypeError")
    ELSE IF ~HasCol(metadata, "id") THEN Raised("KeyError")
    ELSE Returned(NUnique(Col(metadata, "id")))

\* average_rating
AverageRating(ratings) ==
    IF IsNone(ratings) THEN Raised("TypeError")
    ELSE IF ~HasCol(ratings, "rating") THEN Raised("KeyError")
    ELSE Returned(Mean(Col(ratings, "rating")))

\* ratings_df.groupby('movieId')['rating'].mean().reset_index(): one row per
\* movieId that is not null, ascending in movieId
AvgRatings(ratings) ==
    LET ids == Distinct(DropNa(Col(ratings, "movieId")), {})
        group(m) == SelectSeq(ratings.rows, LAMBDA r : r["movieId"] = m)
        rows == [i \in DOMAIN ids |->
                    [movieId |-> ids[i],
                     rating |-> Mean([j \in DOMAIN group(ids[i]) |->
                                         group(ids[i])[j]["rating"]]),
                     ord |-> ids[i]]]
        sorted == StableSort(rows)
    IN  [i \in DOMAIN sorted |->
            [movieId |-> sorted[i].movieId, rating |-> sorted[i].rating]]

\* left.merge(right[['id', 'title']], left_on='movieId', right_on='id',
\* how='inner'): for each left row in turn, one row per right row whose id
\* equals its movieId
Merge(left, right) ==
    Flatten([i \in DOMAIN left |->
        LET hits == SelectSeq(right.rows, LAMBDA r : r["id"] = left[i].movieId)
        IN  [j \in DOMAIN hits |->
                [movieId |-> left[i].movieId, rating |-> left[i].rating,
                 id |-> hits[j]["id"], title |-> hits[j]["title"]]]])

\* frame.nlargest(n, 'rating'): the n rows of largest rating, largest first,
\* rows of equal rating in the order they have in the frame
NLargest(rows, n) ==
    LET rated == SelectSeq(rows, LAMBDA r : ~IsNull(r.rating))
        keyed == [i \in DOMAIN rated |->
                     [row |-> rated[i],
                      ord |-> Frac(-(rated[i].rating.n), rated[i].rating.d)]]
        sorted == StableSort(keyed)
    IN  Take([i \in DOMAIN sorted |-> sorted[i].row], n)

\* the rows whose identifier is no number dropped instead of nulled
CoerceIds_DropsInvalid(metadata) ==
    DataFrame(metadata.columns,
              SelectSeq([i \in DOMAIN metadata.rows |->
                            [metadata.rows[i] EXCEPT !["id"] = ToNumeric(@)]],
                        LAMBDA r : ~IsNull(r["id"])))

\* the parsed dates kept beside the text, in a column of their own
CoerceDates_NewColumn(metadata) ==
    SetCol(metadata, "release_date_parsed",
           [i \in DOMAIN metadata.rows |-> ToDatetime(metadata.rows[i]["release_date"])])

\* self.metadata_df['id'] = pd.to_numeric(self.metadata_df['id'], errors='coerce')
CoerceIds(metadata) ==
    SetCol(metadata, "id",
           [i \in DOMAIN metadata.rows |-> ToNumeric(metadata.rows[i]["id"])])

\* self.metadata_df['release_date'] = pd.to_datetime(..., errors='coerce')
CoerceDates(metadata) ==
    SetCol(metadata, "release_date",
           [i \in DOMAIN metadata.rows |-> ToDatetime(metadata.rows[i]["release_date"])])

\* top_rated_movies(n)
TopRatedMovies(metadata, ratings, n) ==
    IF IsNone(ratings) THEN [exc |-> "AttributeError", value |-> None, metadata |-> metadata]
    ELSE IF ~HasCol(ratings, "movieId") \/ ~HasCol(ratings, "rating")
    THEN [exc |-> "KeyError", value |-> None, metadata |-> metadata]
    ELSE IF IsNone(metadata)
    THEN [exc |-> "TypeError", value |-> None, metadata |-> metadata]
    ELSE IF ~HasCol(metadata, "id")
    THEN [exc |-> "KeyError", value |-> None, metadata |-> metadata]
    ELSE LET coerced == CoerceIds(metadata)
         IN  IF ~HasCol(coerced, "title")
             THEN [exc |-> "KeyError", value |-> None, metadata |-> coerced]
             ELSE LET top == NLargest(Merge(AvgRatings(ratings), coerced), n)
                  IN  [exc |-> "none",
                       value |-> [i \in DOMAIN top |->
                                     [title |-> top[i].title, rating |-> top[i].rating]],
                       metadata |-> coerced]

\* movies_per_year
MoviesPerYear(metadata) ==
    IF IsNone(metadata) THEN [exc |-> "TypeError", value |-> None, metadata |-> metadata]
    ELSE IF ~HasCol(metadata, "release_date")
    THEN [exc |-> "KeyError", value |-> None, metadata |-> metadata]
    ELSE LET dated == CoerceDates(metadata)
             yeared == SetCol(dated, "release_year",
                              [i \in DOMAIN dated.rows |->
                                  Year(dated.rows[i]["release_date"])])
         IN  [exc |-> "none",
              value |-> SortIndex(ValueCounts(Col(yeared, "release_year"))),
              metadata |-> yeared]

\* the exceptions parse_genres turns into an empty list
Caught == {"SyntaxError", "TypeError", "KeyError"}

\* [genre['name'] for genre in items]
RECURSIVE GenreNames(_)
GenreNames(items) ==
    IF items = <<>> THEN Returned(<<>>)
    ELSE LET g == Head(items)
             rest == GenreNames(Tail(items))
         IN  IF g.t # "dict" THEN Raised("TypeError")
             ELSE IF "name" \notin DOMAIN g.d THEN Raised("KeyError")
             ELSE IF rest.exc # "none" THEN rest
             ELSE Returned(<<Str(g.d["name"].s)>> \o rest.value)

\* parse_genres(genres_str)
parse_genres(cell) ==
    LET evaluated == IF cell.k = "str" THEN EvalText(cell.s) ELSE Raised("TypeError")
        names == IF evaluated.exc # "none" THEN evaluated
                 ELSE IF evaluated.value.t # "list" THEN Raised("TypeError")
                 ELSE GenreNames(evaluated.value.items)
    IN  IF names.exc \in Caught THEN Returned(<<>>) ELSE names

\* movies_per_genre
MoviesPerGenre(metadata) ==
    IF IsNone(metadata) THEN Raised("TypeError")
    ELSE IF ~HasCol(metadata, "genres") THEN Raised("KeyError")
    ELSE LET parsed == [i \in DOMAIN metadata.rows |->
                           parse_genres(metadata.rows[i]["genres"])]
             failed == {i \in DOMAIN parsed : parsed[i].exc # "none"}
             \* explode(): a row per list item, one NaN row for an empty list
             exploded == Flatten([i \in DOMAIN parsed |->
                            IF parsed[i].value = <<>> THEN <<NaN>>
                            ELSE parsed[i].value])
         IN  IF failed # {}
             THEN Raised(parsed[CHOOSE i \in failed : \A j \in failed : i <= j].exc)
             ELSE Returned(ValueCounts(exploded))

\* top_keywords(n), the columns of the counts labelled as pandas 1 labels them
TopKeywords(keywords, n) ==
    IF IsNone(keywords) THEN Raised("TypeError")
    ELSE IF ~HasCol(keywords, "name") THEN Raised("KeyError")
    ELSE LET vc == ValueCounts(Col(keywords, "name"))
             top == NLargest([i \in DOMAIN vc |->
                                [keyword |-> vc[i].key, rating |-> Num(vc[i].count)]], n)
         IN  Returned([i \in DOMAIN top |->
                          [keyword |-> top[i].keyword, count |-> top[i].rating.n]])

-----------------------------------------------------------------------------
(* The JSON document DataFrame.to_json(path, orient='records') writes. *)

\* days from 1970-01-01 to the date
DaysFromCivil(y, m, d) ==
    LET yy == IF m <= 2 THEN y - 1 ELSE y
        era == yy \div 400
        yoe == yy - era * 400
        doy == (153 * (IF m > 2 THEN m - 3 ELSE m + 9) + 2) \div 5 + d - 1
        doe == yoe * 365 + yoe \div 4 - yoe \div 100 + doy
    IN  era * 146097 + doe - 719468

\* one cell as a JSON value: null for NaN and NaT, a string for text, a
\* number for a number, the epoch time for a timestamp (kept in days)
ToJson(c) ==
    CASE c.k = "str" -> [j |-> "string", s |-> c.s]
      [] c.k = "num" -> [j |-> "number", n |-> c.n, d |-> c.d]
      [] c.k = "ts" -> [j |-> "number", n |-> DaysFromCivil(c.y, c.m, c.d), d |-> 1]
      [] OTHER -> [j |-> "null"]

\* the properties whose value is null left out of the objects
ToJsonRecords_DropsNulls(df) ==
    [i \in DOMAIN df.rows |->
        [c \in {x \in SeqToSet(df.columns) : ~IsNull(df.rows[i][x])} |->
            ToJson(df.rows[i][c])]]

\* one object per row, one property per column
ToJsonRecords(df) ==
    [i \in DOMAIN df.rows |-> [c \in SeqToSet(df.columns) |-> ToJson(df.rows[i][c])]]

NoFile == [written |-> FALSE]
File(doc) == [written |-> TRUE, doc |-> doc]

-----------------------------------------------------------------------------
(* load_data. *)

\* the position in Order of the first file pd.read_csv raises on, 6 if none
FirstBad ==
    LET bad == {i \in DOMAIN Order : ReadError(sources[Order[i]]) # "none"}
    IN  IF bad = {} THEN Len(Order) + 1 ELSE CHOOSE i \in bad : \A j \in bad : i <= j

\* the tables assigned only once all five files have been read
AfterLoad_AllOrNothing(i, current) ==
    IF FirstBad > Len(Order) THEN ReadCsv(sources[Order[i]]) ELSE current

\* the table attribute number i holds once load_data has ended
AfterLoad(i, current) == IF i < FirstBad THEN ReadCsv(sources[Order[i]]) ELSE current

\* the record load_data logs for the exception it re-raises
LoadRecord(exc) ==
    CASE exc = "FileNotFoundError" -> "File not found"
      [] exc = "EmptyDataError" -> "Empty CSV file"
      [] OTHER -> "Error loading data"

-----------------------------------------------------------------------------
(* The files the model draws. *)

SeqsUpTo(S, n) == UNION {[1..m -> S] : m \in 0..n}

Row(columns, texts) == [c \in SeqToSet(columns) |->
                           texts[CHOOSE i \in DOMAIN columns : columns[i] = c]]

MetadataColumns == <<"id", "title", "genres", "release_date">>
RatingsColumns == <<"userId", "movieId", "rating">>
KeywordsColumns == <<"id", "name">>

IndexText == <<"1", "2", "3", "4", "5">>
TitleText == <<"A", "B", "C", "D", "E">>

IdTexts == {"1", "01", "2", "x", ""}
DateTexts == {"1999-01-01", "1999-06-01", "2001-03-03", "1998-12-31", "soon", ""}
GenreTexts == {"[{'name': 'Action'}]", "[{'name': 'Action'}, {'name': 'Drama'}]",
               "[{'name': 'Drama'}, {'id': 18}]", "5", "[{'name': 'Action'", "Action", ""}
MovieIdTexts == {"1", "2"}
RatingTexts == {"4", "5"}
Statuses == {"ok", "absent", "empty", "undecodable"}

BaseMetadata ==
    CsvFile("ok", MetadataColumns,
            <<Row(MetadataColumns, <<"1", "A", "[{'name': 'Action'}]", "1999-01-01">>),
              Row(MetadataColumns, <<"2", "B", "[{'name': 'Action'}, {'name': 'Drama'}]",
                                     "2001-03-03">>)>>)
BaseRatings ==
    CsvFile("ok", RatingsColumns,
            <<Row(RatingsColumns, <<"1", "1", "5">>),
              Row(RatingsColumns, <<"1", "2", "3">>)>>)
BaseCredits ==
    CsvFile("ok", <<"id", "cast">>, <<Row(<<"id", "cast">>, <<"1", "[]">>)>>)
BaseKeywords ==
    CsvFile("ok", KeywordsColumns,
            <<Row(KeywordsColumns, <<"1", "space">>),
              Row(KeywordsColumns, <<"2", "space">>),
              Row(KeywordsColumns, <<"2", "alien">>)>>)
BaseLinks ==
    CsvFile("ok", <<"movieId", "tmdbId">>, <<Row(<<"movieId", "tmdbId">>, <<"1", "1">>)>>)

Base == [metadata |-> BaseMetadata, ratings |-> BaseRatings, credits |-> BaseCredits,
         keywords |-> BaseKeywords, links |-> BaseLinks]

\* the file with one column less
Without(file, c) ==
    LET cols == SelectSeq(file.columns, LAMBDA x : x # c)
    IN  CsvFile(file.status, cols,
                [i \in DOMAIN file.rows |-> [x \in SeqToSet(cols) |-> file.rows[i][x]]])

\* metadata files whose identifiers vary
IdFiles ==
    {CsvFile("ok", MetadataColumns,
             [i \in DOMAIN ids |->
                 Row(MetadataColumns,
                     <<ids[i], TitleText[i], "[{'name': 'Action'}]", "1999-01-01">>)]) :
        ids \in SeqsUpTo(IdTexts, MaxRows)}

\* metadata files whose release dates vary
DateFiles ==
    {CsvFile("ok", MetadataColumns,
             [i \in DOMAIN dates |->
                 Row(MetadataColumns,
                     <<IndexText[i], TitleText[i], "[{'name': 'Action'}]", dates[i]>>)]) :
        dates \in SeqsUpTo(DateTexts, MaxRows)}

\* metadata files whose genre cells vary
GenreFiles ==
    {CsvFile("ok", MetadataColumns,
             [i \in DOMAIN genres |->
                 Row(MetadataColumns,
                     <<IndexText[i], TitleText[i], genres[i], "1999-01-01">>)]) :
        genres \in SeqsUpTo(GenreTexts, MaxRows)}

\* metadata files that lack a column
ShortMetadataFiles == {Without(BaseMetadata, c) : c \in SeqToSet(MetadataColumns)}

\* ratings files whose observations vary
RatingsFiles ==
    {CsvFile("ok", RatingsColumns,
             [i \in DOMAIN obs |-> Row(RatingsColumns, <<IndexText[i], obs[i][1], obs[i][2]>>)]) :
        obs \in SeqsUpTo(MovieIdTexts \X RatingTexts, MaxRatings)}

\* ratings and keywords files that lack a column
ShortRatingsFiles == {Without(BaseRatings, c) : c \in SeqToSet(RatingsColumns)}
ShortKeywordsFiles == {Without(BaseKeywords, "name")}

\* metadata files whose identifiers and release dates both vary
MixedCells == {<<"1", "1999-01-01">>, <<"1", "soon">>, <<"x", "1999-01-01">>,
               <<"x", "2001-03-03">>, <<"", "">>}
MixedFiles ==
    {CsvFile("ok", MetadataColumns,
             [i \in DOMAIN cells |->
                 Row(MetadataColumns,
                     <<cells[i][1], TitleText[i], "[{'name': 'Action'}]", cells[i][2]>>)]) :
        cells \in SeqsUpTo(MixedCells, MaxRows)}

WithMetadata(files) == {[Base EXCEPT !.metadata = f] : f \in files}
WithRatings(files) == {[Base EXCEPT !.ratings = f] : f \in files}
WithKeywords(files) == {[Base EXCEPT !.keywords = f] : f \in files}

\* the five files, all present and decodable, with a table that lacks a column
ShortInputs ==
    WithMetadata(ShortMetadataFiles) \cup WithRatings(ShortRatingsFiles)
        \cup WithKeywords(ShortKeywordsFiles)

\* the five files with the base contents, each present, absent, empty or undecodable
DamagedInputs ==
    {[x \in SeqToSet(Order) |-> [Base[x] EXCEPT !.status = st[x]]] :
        st \in [SeqToSet(Order) -> Statuses]}

-----------------------------------------------------------------------------
(* The calls.  A call made at position "api" comes from a client of the    *)
(* class; main() makes the call of its current statement.                  *)

DefaultTopN == 5

\* a handler for the errors of the file system only
MainCatches_FileErrorsOnly(exc) ==
    exc \in {"OSError", "FileNotFoundError", "EmptyDataError", "ParserError"}

\* the exceptions `except Exception` in main() catches
MainCatches(exc) ==
    exc \in {"TypeError", "KeyError", "NameError", "SyntaxError", "AttributeError",
             "OSError", "FileNotFoundError", "EmptyDataError", "ParserError"}

\* the end of a call: its argument, what it raised, returned and logged, and
\* main()'s next statement
Finish(op, arg, exc, value, records, next) ==
    LET top == pc # "api"
        handled == top /\ exc # "none" /\ MainCatches(exc)
    IN  /\ last' = [op |-> op, arg |-> arg, exc |-> exc, value |-> value,
                    logged |-> IF handled THEN records \o <<"An error occurred">>
                               ELSE records]
        /\ pc' = IF ~top THEN "api"
                 ELSE IF exc = "none" THEN next
                 ELSE IF handled THEN "done" ELSE "crashed"
        /\ trace' = IF top THEN Append(trace, op) ELSE trace

Tables(md, rt, cr, kw, ln) ==
    [k |-> "tables", metadata |-> md, ratings |-> rt, credits |-> cr,
     keywords |-> kw, links |-> ln]

load_data(at) ==
    /\ pc = at
    /\ LET exc == IF FirstBad > Len(Order) THEN "none"
                  ELSE ReadError(sources[Order[FirstBad]])
       IN  /\ metadata_df' = AfterLoad(1, metadata_df)
           /\ ratings_df' = AfterLoad(2, ratings_df)
           /\ credits_df' = AfterLoad(3, credits_df)
           /\ keywords_df' = AfterLoad(4, keywords_df)
           /\ links_df' = AfterLoad(5, links_df)
           /\ loaded' = IF exc = "none"
                        THEN Tables(metadata_df', ratings_df', credits_df',
                                    keywords_df', links_df')
                        ELSE loaded
           /\ ran' = IF FirstBad > 1 THEN {} ELSE ran
           /\ Finish("load_data", None, exc, None,
                     IF exc = "none" THEN <<>> ELSE <<LoadRecord(exc)>>, "unique")
    /\ UNCHANGED <<sources, json_out>>

unique_movies_count(at) ==
    /\ pc = at
    /\ LET r == UniqueMoviesCount(metadata_df)
       IN  Finish("unique_movies_count", None, r.exc, r.value, <<>>, "average")
    /\ UNCHANGED <<sources, metadata_df, ratings_df, credits_df, keywords_df, links_df,
                   json_out, loaded, ran>>

average_rating(at) ==
    /\ pc = at
    /\ LET r == AverageRating(ratings_df)
       IN  Finish("average_rating", None, r.exc, r.value, <<>>, "top")
    /\ UNCHANGED <<sources, metadata_df, ratings_df, credits_df, keywords_df, links_df,
                   json_out, loaded, ran>>

top_rated_movies(at, N) ==
    /\ pc = at
    /\ \E n \in N :
          LET r == TopRatedMovies(metadata_df, ratings_df, n)
          IN  /\ metadata_df' = r.metadata
              /\ ran' = IF r.exc = "none" THEN ran \cup {"top_rated_movies"} ELSE ran
              /\ Finish("top_rated_movies", n, r.exc, r.value, <<>>, "year")
    /\ UNCHANGED <<sources, ratings_df, credits_df, keywords_df, links_df, json_out, loaded>>

movies_per_year(at) ==
    /\ pc = at
    /\ LET r == MoviesPerYear(metadata_df)
       IN  /\ metadata_df' = r.metadata
           /\ ran' = IF r.exc = "none" THEN ran \cup {"movies_per_year"} ELSE ran
           /\ Finish("movies_per_year", None, r.exc, r.value, <<>>, "genre")
    /\ UNCHANGED <<sources, ratings_df, credits_df, keywords_df, links_df, json_out, loaded>>

movies_per_genre(at) ==
    /\ pc = at
    /\ LET r == MoviesPerGenre(metadata_df)
       IN  Finish("movies_per_genre", None, r.exc, r.value, <<>>, "export")
    /\ UNCHANGED <<sources, metadata_df, ratings_df, credits_df, keywords_df, links_df,
                   json_out, loaded, ran>>

top_keywords(at, N) ==
    /\ pc = at
    /\ \E n \in N :
          LET r == TopKeywords(keywords_df, n)
          IN  Finish("top_keywords", n, r.exc, r.value, <<>>, "api")
    /\ UNCHANGED <<sources, metadata_df, ratings_df, credits_df, keywords_df, links_df,
                   json_out, loaded, ran>>

save_to_json(at) ==
    /\ pc = at
    /\ \E writable \in BOOLEAN :
          LET exc == IF IsNone(metadata_df) THEN "AttributeError"
                     ELSE IF ~writable THEN "OSError" ELSE "none"
          IN  /\ json_out' = IF exc = "none" THEN File(ToJsonRecords(metadata_df))
                             ELSE json_out
              /\ Finish("save_to_json", None, exc, None,
                        IF exc = "none" THEN <<>> ELSE <<"Error saving data to JSON">>,
                        "done")
    /\ UNCHANGED <<sources, metadata_df, ratings_df, credits_df, keywords_df, links_df,
                   loaded, ran>>

-----------------------------------------------------------------------------
(* Specifications. *)

\* the state __init__ leaves, with the files drawn from inputs
Constructed(at, inputs) ==
    /\ sources \in inputs
    /\ metadata_df = None
    /\ ratings_df = None
    /\ credits_df = None
    /\ keywords_df = None
    /\ links_df = None
    /\ last = [op |-> "__init__", arg |-> None, exc |-> "none", value |-> None, logged |-> <<>>]
    /\ json_out = NoFile
    /\ loaded = None
    /\ ran = {}
    /\ pc = at
    /\ trace = <<>>

\* a client calling the methods of one analyzer in any order
Next ==
    \/ load_data("api")
    \/ unique_movies_count("api")
    \/ average_rating("api")
    \/ top_rated_movies("api", 0..MaxN)
    \/ movies_per_year("api")
    \/ movies_per_genre("api")
    \/ top_keywords("api", 0..MaxN)
    \/ save_to_json("api")

Init == Constructed("api", WithMetadata(MixedFiles) \cup ShortInputs)
Spec == Init /\ [][Next]_vars

InitIds == Constructed("api", WithMetadata(IdFiles) \cup WithRatings(RatingsFiles))
SpecIds == InitIds /\ [][Next]_vars

InitDates == Constructed("api", WithMetadata(DateFiles))
SpecDates == InitDates /\ [][Next]_vars

InitGenres == Constructed("api", WithMetadata(GenreFiles))
SpecGenres == InitGenres /\ [][Next]_vars

InitLoad == Constructed("api", DamagedInputs)
SpecLoad == InitLoad /\ [][Next]_vars

\* one run of main()
NextMain ==
    \/ load_data("load")
    \/ unique_movies_count("unique")
    \/ average_rating("average")
    \/ top_rated_movies("top", {DefaultTopN})
    \/ movies_per_year("year")
    \/ movies_per_genre("genre")
    \/ save_to_json("export")

InitMain ==
    Constructed("load", WithMetadata(MixedFiles \cup GenreFiles) \cup ShortInputs
                            \cup DamagedInputs)
SpecMain == InitMain /\ [][NextMain]_vars

-----------------------------------------------------------------------------
(* Properties. *)

Loaded == loaded # None

ColumnSet(df) == SeqToSet(df.columns)

Min(a, b) == IF a < b THEN a ELSE b

\* the genre names a cell lists when it is well formed (a list of objects that
\* all carry a name), and no names otherwise
ListedNames(cell) ==
    IF cell.k # "str" \/ EvalText(cell.s).exc # "none" THEN <<>>
    ELSE LET v == EvalText(cell.s).value
         IN  IF v.t # "list" THEN <<>>
             ELSE IF \E i \in DOMAIN v.items :
                        v.items[i].t # "dict" \/ "name" \notin DOMAIN v.items[i].d
             THEN <<>>
             ELSE [i \in DOMAIN v.items |-> Str(v.items[i].d["name"].s)]

\* the number of times the rows of the metadata table list the genre name
Occurrences(name) ==
    LET listed == Flatten([i \in DOMAIN metadata_df.rows |->
                              ListedNames(metadata_df.rows[i]["genres"])])
    IN  Cardinality({i \in DOMAIN listed : listed[i] = name})

\* C1: movies_per_genre never raises because of what a genre cell holds: on
\* every metadata table with a genres column it returns, for each genre name
\* a well-formed row lists, the number of times the rows list it, and no other
\* name.
C1_GenreCellsNeverRaise ==
    (last.op = "movies_per_genre" /\ ~IsNone(metadata_df) /\ HasCol(metadata_df, "genres"))
        => /\ last.exc = "none"
           /\ \A i \in DOMAIN last.value :
                 last.value[i].count = Occurrences(last.value[i].key)
           /\ \A i \in DOMAIN metadata_df.rows :
                 \A name \in SeqToSet(ListedNames(metadata_df.rows[i]["genres"])) :
                    \E j \in DOMAIN last.value : last.value[j].key = name

\* C2: after a successful load, a query returns what it returns when it is
\* the first call on the freshly loaded tables, whatever calls came before it.
C2_QueriesIndependent ==
    (Loaded /\ last.exc = "none") =>
        CASE last.op = "unique_movies_count" ->
                last.value = UniqueMoviesCount(loaded.metadata).value
          [] last.op = "average_rating" ->
                last.value = AverageRating(loaded.ratings).value
          [] last.op = "top_rated_movies" ->
                last.value = TopRatedMovies(loaded.metadata, loaded.ratings, last.arg).value
          [] last.op = "movies_per_year" ->
                last.value = MoviesPerYear(loaded.metadata).value
          [] last.op = "movies_per_genre" ->
                last.value = MoviesPerGenre(loaded.metadata).value
          [] last.op = "top_keywords" ->
                last.value = TopKeywords(loaded.keywords, last.arg).value
          [] OTHER -> TRUE

\* the movies of the ratings table that have a metadata row with an equal identifier
MatchedMovies ==
    {m \in SeqToSet(DropNa(Col(ratings_df, "movieId"))) :
        \E i \in DOMAIN metadata_df.rows : metadata_df.rows[i]["id"] = m}

\* the mean of the movie's ratings
MeanRating(m) ==
    LET obs == SelectSeq(ratings_df.rows, LAMBDA r : r["movieId"] = m)
    IN  Mean([i \in DOMAIN obs |-> obs[i]["rating"]])

\* C3: top_rated_movies(n) returns the min(n, M) highest-rated of the M rated
\* movies that have a metadata row: one entry per movie, each the title and
\* mean rating of its movie, in non-increasing order of rating, and no matched
\* movie that is left out has a higher mean than one that is returned.
C3_TopRatedAreDistinctMovies ==
    (last.op = "top_rated_movies" /\ last.exc = "none") =>
        /\ Len(last.value) = Min(last.arg, Cardinality(MatchedMovies))
        /\ \A i \in DOMAIN last.value : \A j \in DOMAIN last.value :
              i < j => ~Less(last.value[i].rating, last.value[j].rating)
        /\ \E movie \in [DOMAIN last.value -> MatchedMovies] :
              /\ \A i \in DOMAIN last.value : \A j \in DOMAIN last.value :
                    movie[i] = movie[j] => i = j
              /\ \A i \in DOMAIN last.value :
                    /\ last.value[i].rating = MeanRating(movie[i])
                    /\ \E r \in DOMAIN metadata_df.rows :
                          /\ metadata_df.rows[r]["id"] = movie[i]
                          /\ metadata_df.rows[r]["title"] = last.value[i].title
              /\ \A m \in MatchedMovies :
                    (\A i \in DOMAIN last.value : movie[i] # m) =>
                        \A i \in DOMAIN last.value :
                           ~Less(last.value[i].rating, MeanRating(m))

\* C4: unique_movies_count returns the number of distinct identifiers of the
\* metadata table that are not null: rows with the same identifier count once,
\* rows with no identifier do not count.
C4_CountsDistinctNonNullIds ==
    (last.op = "unique_movies_count" /\ last.exc = "none") =>
        last.value = Cardinality({metadata_df.rows[i]["id"] : i \in DOMAIN metadata_df.rows}
                                     \ {NaN})

\* C4 witness: the count of a table with a repeated and a missing identifier
C4_Witness ==
    /\ last.op = "unique_movies_count"
    /\ last.exc = "none"
    /\ last.value = 1
    /\ \E i \in DOMAIN metadata_df.rows : \E j \in DOMAIN metadata_df.rows :
          /\ i # j
          /\ metadata_df.rows[i]["id"] = metadata_df.rows[j]["id"]
          /\ metadata_df.rows[i]["id"] # NaN

\* the year of the release date the row had when it was loaded; 0 if the date
\* is missing or spells no date
LoadedYear(i) ==
    LET c == loaded.metadata.rows[i]["release_date"]
    IN  IF c.k = "str" /\ ParseDate(c.s) # NaT THEN ParseDate(c.s).y ELSE 0

RowsOfYear(y) == {i \in DOMAIN loaded.metadata.rows : LoadedYear(i) = y}

\* C5: movies_per_year returns the years of the parseable release dates in
\* ascending order, each with the number of rows released in it; a row with a
\* missing or unparseable date is counted in no year, and no year is listed
\* with zero movies.
C5_YearsCountedAscending ==
    (Loaded /\ last.op = "movies_per_year" /\ last.exc = "none") =>
        /\ \A i \in DOMAIN last.value : \A j \in DOMAIN last.value :
              i < j => Less(last.value[i].key, last.value[j].key)
        /\ \A i \in DOMAIN last.value :
              /\ last.value[i].key.d = 1
              /\ last.value[i].count > 0
              /\ last.value[i].count = Cardinality(RowsOfYear(last.value[i].key.n))
        /\ \A r \in DOMAIN loaded.metadata.rows :
              LoadedYear(r) # 0 =>
                 \E i \in DOMAIN last.value : last.value[i].key = Num(LoadedYear(r))
        /\ Sum([i \in DOMAIN last.value |-> Num(last.value[i].count)])
              = Num(Cardinality({r \in DOMAIN loaded.metadata.rows : LoadedYear(r) # 0}))

\* C5 witness: two years counted, the later one first in the table
C5_Witness ==
    /\ Loaded
    /\ last.op = "movies_per_year"
    /\ last.exc = "none"
    /\ Len(last.value) = 2
    /\ Len(loaded.metadata.rows) = 2
    /\ LoadedYear(1) > LoadedYear(2)

\* what a reader of the exported document finds: its rows and its columns
ImportedRows(doc) == Len(doc)
ImportedColumns(doc) == UNION {DOMAIN doc[i] : i \in DOMAIN doc}

TablesUnchanged ==
    UNCHANGED <<metadata_df, ratings_df, credits_df, keywords_df, links_df>>

\* the export has just written the metadata table as it is
Exported == last.op = "save_to_json" /\ last.exc = "none"

TableSeq == <<metadata_df, ratings_df, credits_df, keywords_df, links_df>>

Readable(i) == sources[Order[i]].status = "ok"

MainOrder == <<"load_data", "unique_movies_count", "average_rating", "top_rated_movies",
               "movies_per_year", "movies_per_genre", "save_to_json">>

\* the statement of main() that makes each call of MainOrder
MainPosition == <<"load", "unique", "average", "top", "year", "genre", "export">>

IsPrefix(s, t) == Len(s) <= Len(t) /\ \A i \in DOMAIN s : s[i] = t[i]

\* C8: main() runs load, unique count, average rating, top-rated, per-year,
\* per-genre, export in this order; when a step raises no later step runs (so
\* nothing is exported), the error is logged at the top level and caught, and
\* the run is at its end or at the statement that makes its next call, which
\* nothing blocks.
C8_MainStopsAtFirstFailure ==
    /\ IsPrefix(trace, MainOrder)
    /\ pc # "crashed"
    /\ pc = "done" \/ (Len(trace) < Len(MainPosition) /\ pc = MainPosition[Len(trace) + 1])
    /\ (trace # <<>>) => last.op = trace[Len(trace)]
    /\ (trace # <<>> /\ last.exc # "none") =>
          /\ pc = "done"
          /\ last.logged # <<>>
          /\ last.logged[Len(last.logged)] = "An error occurred"
          /\ json_out = NoFile
    /\ (trace # <<>> /\ trace[Len(trace)] # "load_data") => Loaded
    /\ (pc = "done" /\ last.exc = "none") => (trace = MainOrder /\ json_out.written)
    /\ json_out.written => (pc = "done" /\ trace = MainOrder)

\* C8 witness: the run ended at movies_per_genre, which raised
C8_Witness ==
    /\ pc = "done"
    /\ last.op = "movies_per_genre"
    /\ last.exc = "NameError"
    /\ Len(trace) = 6

\* C9: once a load has succeeded, every table keeps the number of rows it was
\* loaded with, and the ratings, credits, keywords and links tables stay as
\* loaded.
C9_RowCountsKept ==
    Loaded =>
        /\ ~IsNone(metadata_df)
        /\ Len(metadata_df.rows) = Len(loaded.metadata.rows)
        /\ ratings_df = loaded.ratings
        /\ credits_df = loaded.credits
        /\ keywords_df = loaded.keywords
        /\ links_df = loaded.links

\* C9 witness: both coercions have run and have nulled an identifier and a date
C9_Witness ==
    /\ Loaded
    /\ ran = {"top_rated_movies", "movies_per_year"}
    /\ \E i \in DOMAIN metadata_df.rows :
          /\ loaded.metadata.rows[i]["id"] = Str("x")
          /\ metadata_df.rows[i]["id"] = NaN
    /\ \E i \in DOMAIN metadata_df.rows :
          /\ loaded.metadata.rows[i]["release_date"] = Str("soon")
          /\ metadata_df.rows[i]["release_date"] = NaT

\* C10 as stated: the metadata column set differs from the loaded one only
\* once movies_per_year has run, and then by two derived columns.
C10_YearAddsTwoColumns ==
    Loaded =>
        /\ ColumnSet(loaded.metadata) \subseteq ColumnSet(metadata_df)
        /\ (ColumnSet(metadata_df) # ColumnSet(loaded.metadata)) => "movies_per_year" \in ran
        /\ ("movies_per_year" \in ran) =>
              Cardinality(ColumnSet(metadata_df) \ ColumnSet(loaded.metadata)) = 2

\* C10 amended: the metadata column set is the loaded one until movies_per_year
\* has run and the loaded one with release_year added from then on (one derived
\* column; release_date is overwritten in place); no other call changes it.
C10_YearAddsReleaseYear ==
    Loaded =>
        ColumnSet(metadata_df) =
            ColumnSet(loaded.metadata)
                \cup (IF "movies_per_year" \in ran THEN {"release_year"} ELSE {})

\* C10 witness: an export that follows movies_per_year and top_rated_movies
C10_Witness ==
    /\ Loaded
    /\ Exported
    /\ ran = {"top_rated_movies", "movies_per_year"}
    /\ "release_year" \in ColumnSet(metadata_df)
    /\ "release_year" \notin ColumnSet(loaded.metadata)

====
